---- MODULE Spec2Model ----
(***************************************************************************)
(* ReportRepository (backend/database/repositories/report.py) and          *)
(* DBManager (backend/database/initializer.py) as state machines.          *)
(*                                                                         *)
(* Spec      the repository: the table financial_reports and one action    *)
(*           per writing method; the reading methods are operators over    *)
(*           the table.                                                    *)
(* BootSpec  DBManager.initialize(), one action per step of its body.      *)
(***************************************************************************)
EXTENDS Integers, Sequences, FiniteSets, TLC

VARIABLES
    reports,        \* the rows of financial_reports (committed state)
    nextId,         \* the next value of the autoincrement id
    ret,            \* what the last repository call returned or raised
    pc,             \* position inside DBManager.initialize()
    master_engine,  \* DBManager.master_engine: "none" | "live" | "disposed"
    target_engine,  \* DBManager.target_engine: "none" | "live" | "disposed"
    dbPresent,      \* the server's catalog lists the target database
    tables,         \* base tables of the target database (schema dbo)
    trace,          \* the calls initialize() has made, with their results
    outcome,        \* how initialize() ended: "running" | "true" | "false" | "raised"
    workers         \* the concurrent upsert calls: position, argument, lookup result

storeVars == <<reports, nextId, ret>>
bootVars == <<pc, master_engine, target_engine, dbPresent, tables, trace, outcome>>
vars == <<reports, nextId, ret, pc, master_engine, target_engine, dbPresent,
          tables, trace, outcome, workers>>

----------------------------------------------------------------------------
(* Bounds of the model *)

\* rows ever inserted (the autoincrement id stops here)
MaxId == 2

\* items of one add_bulk / upsert_bulk call
MaxBatch == 2

\* rows of the tables get_all is run on
MaxRows == 3

\* upsert calls that run at the same time, each on its own session
NumWorkers == 2

----------------------------------------------------------------------------
(* Values *)

\* Python None / SQL NULL, and a present optional value
None == <<>>

Some(x) == <<x>>

\* a symbol is a sequence of characters
Symbols == {<<"a">>, <<"A">>}

Contents == {"c1", "c2"}

\* (report_type, report_year, report_quarter) of the payloads written; no
\* method of the repository checks that a quarter goes with "quarterly"
Periods ==
    { [report_type |-> "annual",    report_year |-> 2023, report_quarter |-> None],
      [report_type |-> "quarterly", report_year |-> 2023, report_quarter |-> None],
      [report_type |-> "quarterly", report_year |-> 2023, report_quarter |-> Some(1)] }

ReportTypes == {"annual", "quarterly"}

ReportYears == {2022, 2023}

\* the arguments of a lookup range over both types, two years and the
\* quarters absent, 0 and 1
QuarterArgs == {None, Some(0), Some(1)}

\* report_data: a dict with the full field set
Payloads ==
    { [symbol |-> s, report_type |-> p.report_type, report_year |-> p.report_year,
       report_quarter |-> p.report_quarter, content |-> c] :
         s \in Symbols, p \in Periods, c \in Contents }

\* a dict without "report_year": upsert's report_data["report_year"] raises KeyError
Malformed == [symbol |-> <<"a">>, report_type |-> "annual", content |-> "c1"]

\* the items a bulk call is given: one business key in its two spellings
BatchItems ==
    { [symbol |-> <<"a">>, report_type |-> "annual", report_year |-> 2023,
       report_quarter |-> None, content |-> "c1"],
      [symbol |-> <<"A">>, report_type |-> "annual", report_year |-> 2023,
       report_quarter |-> None, content |-> "c2"] }

RECURSIVE SeqsUpTo(_, _)
SeqsUpTo(S, n) ==
    IF n = 0 THEN {<<>>}
    ELSE LET shorter == SeqsUpTo(S, n - 1)
         IN shorter \cup { Append(q, x) : q \in {t \in shorter : Len(t) = n - 1}, x \in S }

----------------------------------------------------------------------------
(* str.lower() *)

LowerChar(c) ==
    CASE c = "A" -> "a"
      [] c = "B" -> "b"
      [] OTHER -> c

Lower(s) == [i \in DOMAIN s |-> LowerChar(s[i])]

----------------------------------------------------------------------------
(* FinancialReport rows *)

\* FinancialReport(**report_data), the id assigned at commit
NewReport(data, id) ==
    [id |-> id, symbol |-> data.symbol, report_type |-> data.report_type,
     report_year |-> data.report_year,
     report_quarter |-> IF "report_quarter" \in DOMAIN data THEN data.report_quarter ELSE None,
     content |-> data.content]

\* the business key of a row or of a payload
BusinessKey(r) ==
    <<r.symbol, r.report_type, r.report_year,
      IF "report_quarter" \in DOMAIN r THEN r.report_quarter ELSE None>>

\* Result.scalar_one_or_none()
ScalarOneOrNone(rows) ==
    IF rows = {} THEN [kind |-> "none"]
    ELSE IF Cardinality(rows) = 1 THEN [kind |-> "one", row |-> CHOOSE r \in rows : TRUE]
    ELSE [kind |-> "MultipleResultsFound"]

GetByIdOrAny(store, report_id) ==
    IF \E r \in store : r.id = report_id
    THEN ScalarOneOrNone({r \in store : r.id = report_id})
    ELSE ScalarOneOrNone(IF store = {} THEN {} ELSE {CHOOSE r \in store : TRUE})

\* get_by_id: the row with this id, or None
GetById(store, report_id) == ScalarOneOrNone({r \in store : r.id = report_id})

GetBySymbolNoLower(store, symbol) == {r \in store : r.symbol = symbol}

GetBySymbol(store, symbol) == {r \in store : r.symbol = Lower(symbol)}

CountBySymbol(store, symbol) == Cardinality({r \in store : r.symbol = Lower(symbol)})

\* delete_by_symbol: the table afterwards and result.rowcount
DeleteBySymbolResult(store, symbol) ==
    [store |-> {r \in store : r.symbol # Lower(symbol)},
     rowcount |-> Cardinality({r \in store : r.symbol = Lower(symbol)})]

FindDuplicateNullWildcard(store, symbol, report_type, report_year, report_quarter) ==
    LET base == {r \in store : /\ r.symbol = Lower(symbol)
                               /\ r.report_type = report_type
                               /\ r.report_year = report_year}
    IN ScalarOneOrNone(IF report_quarter # None
                       THEN {r \in base : r.report_quarter = report_quarter}
                       ELSE base)

FindDuplicate(store, symbol, report_type, report_year, report_quarter) ==
    LET base == {r \in store : /\ r.symbol = Lower(symbol)
                               /\ r.report_type = report_type
                               /\ r.report_year = report_year}
    IN ScalarOneOrNone(IF report_quarter # None
                       THEN {r \in base : r.report_quarter = report_quarter}
                       ELSE {r \in base : r.report_quarter = None})

----------------------------------------------------------------------------
(* The writing methods *)

Workers == 1..NumWorkers

\* no upsert call is in progress
NoCalls == [w \in Workers |-> [pc |-> "idle"]]


\* update: setattr for every key of update_data that is an attribute
UpdateRow(row, update_data) ==
    [k \in DOMAIN row |-> IF k \in DOMAIN update_data THEN update_data[k] ELSE row[k]]

\* upsert, existing row: setattr for every key that is an attribute, except "id"
OverwriteRow(row, report_data) ==
    [k \in DOMAIN row |->
        IF k \in DOMAIN report_data /\ k # "id" THEN report_data[k] ELSE row[k]]

\* upsert(report_data) on table `store` with autoincrement at `nid`
UpsertResult(store, nid, report_data) ==
    IF ~ ({"symbol", "report_type", "report_year"} \subseteq DOMAIN report_data)
    THEN [status |-> "KeyError", store |-> store, nextId |-> nid, created |-> FALSE]
    ELSE LET existing == FindDuplicate(store, report_data.symbol, report_data.report_type,
                             report_data.report_year,
                             IF "report_quarter" \in DOMAIN report_data
                             THEN report_data.report_quarter ELSE None)
         IN CASE existing.kind = "MultipleResultsFound" ->
                   [status |-> "MultipleResultsFound", store |-> store, nextId |-> nid,
                    created |-> FALSE]
              [] existing.kind = "one" ->
                   [status |-> "ok",
                    store |-> (store \ {existing.row})
                                \cup {OverwriteRow(existing.row, report_data)},
                    nextId |-> nid, created |-> FALSE]
              [] OTHER ->
                   [status |-> "ok", store |-> store \cup {NewReport(report_data, nid)},
                    nextId |-> nid + 1, created |-> TRUE]

Init ==
    /\ reports = {}
    /\ nextId = 1
    /\ ret = [op |-> "init"]
    /\ pc = "idle"
    /\ master_engine = "none"
    /\ target_engine = "none"
    /\ dbPresent = TRUE
    /\ tables = {}
    /\ trace = <<>>
    /\ outcome = "running"
    /\ workers = NoCalls

\* the business key with its symbol folded to lowercase
NormalKey(r) ==
    <<Lower(r.symbol), r.report_type, r.report_year,
      IF "report_quarter" \in DOMAIN r THEN r.report_quarter ELSE None>>

\* no stored row carries the business key of report_data as spelled
KeyIsFreshExact(store, report_data) ==
    /\ {"symbol", "report_type", "report_year"} \subseteq DOMAIN report_data
    /\ ~ \E r \in store : BusinessKey(r) = BusinessKey(report_data)

\* no stored row carries the business key of report_data, in any spelling of
\* the symbol
KeyIsFresh(store, report_data) ==
    /\ {"symbol", "report_type", "report_year"} \subseteq DOMAIN report_data
    /\ ~ \E r \in store : NormalKey(r) = NormalKey(report_data)

Add(report_data) ==
    /\ nextId <= MaxId
    /\ reports' = reports \cup {NewReport(report_data, nextId)}
    /\ nextId' = nextId + 1
    /\ ret' = [op |-> "add", id |-> nextId]
    /\ UNCHANGED <<bootVars, workers>>

\* add_bulk: every item inserted, one commit
AddBulk(reports_data) ==
    /\ nextId + Len(reports_data) <= MaxId + 1
    /\ reports' = reports \cup
          { NewReport(reports_data[i], nextId + i - 1) : i \in DOMAIN reports_data }
    /\ nextId' = nextId + Len(reports_data)
    /\ ret' = [op |-> "add_bulk", n |-> Len(reports_data)]
    /\ UNCHANGED <<bootVars, workers>>

\* update: None when get_by_id finds no row, else setattr and commit;
\* `missing` records that no stored row had the id when the call began
Update(report_id, update_data) ==
    LET report == GetById(reports, report_id)
    IN /\ report.kind # "MultipleResultsFound"
       /\ reports' = IF report.kind = "one"
                     THEN (reports \ {report.row}) \cup {UpdateRow(report.row, update_data)}
                     ELSE reports
       /\ ret' = [op |-> "update", found |-> report.kind = "one",
                  missing |-> ~ \E r \in reports : r.id = report_id]
       /\ UNCHANGED <<nextId, bootVars, workers>>

Upsert(report_data) ==
    LET res == UpsertResult(reports, nextId, report_data)
    IN /\ res.nextId <= MaxId + 1
       /\ reports' = res.store
       /\ nextId' = res.nextId
       /\ ret' = [op |-> "upsert", status |-> res.status, created |-> res.created,
                  data |-> report_data, fresh |-> KeyIsFresh(reports, report_data)]
       /\ UNCHANGED <<bootVars, workers>>

\* the loop of upsert_bulk from item i on; every upsert commits by itself, an
\* exception of item i leaves the loop.  `fresh` counts the items whose business
\* key no row carried when the item was processed, in any spelling of the symbol
\* (`freshExact`: as spelled); `last` is the last item whose upsert returned.
RECURSIVE UpsertBulkRollback(_, _, _, _, _)
UpsertBulkRollback(store, nid, reports_data, i, acc) ==
    IF i > Len(reports_data)
    THEN [status |-> "ok", store |-> store, nextId |-> nid, created |-> acc.created,
          updated |-> acc.updated, total |-> Len(reports_data), fresh |-> acc.fresh,
          freshExact |-> acc.freshExact, done |-> i - 1, last |-> acc.last]
    ELSE LET res == UpsertResult(store, nid, reports_data[i])
         IN IF res.status # "ok"
            THEN [status |-> res.status, store |-> acc.first, nextId |-> nid,
                  created |-> acc.created, updated |-> acc.updated, total |-> None,
                  fresh |-> acc.fresh, freshExact |-> acc.freshExact, done |-> i - 1,
                  last |-> acc.last]
            ELSE UpsertBulkRollback(res.store, res.nextId, reports_data, i + 1,
                    [created |-> acc.created + (IF res.created THEN 1 ELSE 0),
                     updated |-> acc.updated + (IF res.created THEN 0 ELSE 1),
                     fresh |-> acc.fresh
                                + (IF KeyIsFresh(store, reports_data[i]) THEN 1 ELSE 0),
                     freshExact |-> acc.freshExact
                                + (IF KeyIsFreshExact(store, reports_data[i]) THEN 1 ELSE 0),
                     last |-> Some(reports_data[i]), first |-> acc.first])

RECURSIVE UpsertBulkLoop(_, _, _, _, _)
UpsertBulkLoop(store, nid, reports_data, i, acc) ==
    IF i > Len(reports_data)
    THEN [status |-> "ok", store |-> store, nextId |-> nid, created |-> acc.created,
          updated |-> acc.updated, total |-> Len(reports_data), fresh |-> acc.fresh,
          freshExact |-> acc.freshExact, done |-> i - 1, last |-> acc.last]
    ELSE LET res == UpsertResult(store, nid, reports_data[i])
         IN IF res.status # "ok"
            THEN [status |-> res.status, store |-> store, nextId |-> nid,
                  created |-> acc.created, updated |-> acc.updated, total |-> None,
                  fresh |-> acc.fresh, freshExact |-> acc.freshExact, done |-> i - 1,
                  last |-> acc.last]
            ELSE UpsertBulkLoop(res.store, res.nextId, reports_data, i + 1,
                    [created |-> acc.created + (IF res.created THEN 1 ELSE 0),
                     updated |-> acc.updated + (IF res.created THEN 0 ELSE 1),
                     fresh |-> acc.fresh
                                + (IF KeyIsFresh(store, reports_data[i]) THEN 1 ELSE 0),
                     freshExact |-> acc.freshExact
                                + (IF KeyIsFreshExact(store, reports_data[i]) THEN 1 ELSE 0),
                     last |-> Some(reports_data[i]), first |-> acc.first])

UpsertBulk(reports_data) ==
    LET res == UpsertBulkLoop(reports, nextId, reports_data, 1,
                   [created |-> 0, updated |-> 0, fresh |-> 0, freshExact |-> 0, last |-> None,
                    first |-> reports])
    IN /\ res.nextId <= MaxId + 1
       /\ reports' = res.store
       /\ nextId' = res.nextId
       /\ ret' = [op |-> "upsert_bulk", status |-> res.status, created |-> res.created,
                  updated |-> res.updated, total |-> res.total, n |-> Len(reports_data),
                  fresh |-> res.fresh, freshExact |-> res.freshExact, done |-> res.done,
                  last |-> res.last]
       /\ UNCHANGED <<bootVars, workers>>

\* delete: False when get_by_id finds no row, else the row is deleted
Delete(report_id) ==
    LET report == GetById(reports, report_id)
    IN /\ report.kind # "MultipleResultsFound"
       /\ reports' = IF report.kind = "one" THEN reports \ {report.row} ELSE reports
       /\ ret' = [op |-> "delete", deleted |-> report.kind = "one",
                  missing |-> ~ \E r \in reports : r.id = report_id]
       /\ UNCHANGED <<nextId, bootVars, workers>>

DeleteBySymbol(symbol) ==
    LET res == DeleteBySymbolResult(reports, symbol)
    IN /\ reports' = res.store
       /\ ret' = [op |-> "delete_by_symbol", rowcount |-> res.rowcount]
       /\ UNCHANGED <<nextId, bootVars, workers>>

\* update_data of the update calls: one column of the row, its period, or a key
\* that is no attribute of FinancialReport
UpdateInputs ==
    { [symbol |-> s] : s \in Symbols } \cup { [content |-> c] : c \in Contents }
      \cup Periods \cup { [bogus |-> "x"] }

\* reports_data of the add_bulk and of the upsert_bulk calls
AddBatches == SeqsUpTo(BatchItems, MaxBatch)

UpsertBatches == SeqsUpTo(BatchItems \cup {Malformed}, MaxBatch)

Next ==
    \/ \E d \in Payloads : Add(d)
    \/ \E ds \in AddBatches : AddBulk(ds)
    \/ \E id \in 1..MaxId, u \in UpdateInputs : Update(id, u)
    \/ \E d \in Payloads \cup {Malformed} : Upsert(d)
    \/ \E ds \in UpsertBatches : UpsertBulk(ds)
    \/ \E id \in 1..MaxId : Delete(id)
    \/ \E s \in Symbols : DeleteBySymbol(s)

Spec == Init /\ [][Next]_vars

----------------------------------------------------------------------------
(* The repository called with an "id" entry in the data *)

\* update(report_id, {"id": new_id}) for a new_id that no row carries and the
\* autoincrement has passed: the setattr loop assigns report.id, and at commit
\* the store either accepts the changed key or rejects the statement (an
\* identity column cannot be updated), which leaves the row as it was
UpdateId(report_id, new_id, accepted) ==
    LET report == GetById(reports, report_id)
    IN /\ report.kind # "MultipleResultsFound"
       /\ ~ \E r \in reports : r.id = new_id
       /\ reports' = IF report.kind = "one" /\ accepted
                     THEN (reports \ {report.row})
                             \cup {UpdateRow(report.row, [id |-> new_id])}
                     ELSE reports
       /\ ret' = [op |-> "update", found |-> report.kind = "one",
                  missing |-> ~ \E r \in reports : r.id = report_id,
                  raised |-> IF report.kind = "one" /\ ~accepted
                             THEN "DBAPIError" ELSE "none"]
       /\ UNCHANGED <<nextId, bootVars, workers>>

\* upsert(report_data) with an "id" entry, for a business key that is stored
UpsertWithId(report_data, id) ==
    LET data == [id |-> id] @@ report_data
        res == UpsertResult(reports, nextId, data)
    IN /\ res.status = "ok"
       /\ ~res.created
       /\ reports' = res.store
       /\ nextId' = res.nextId
       /\ ret' = [op |-> "upsert", status |-> res.status, created |-> res.created,
                  data |-> data, fresh |-> KeyIsFresh(reports, data)]
       /\ UNCHANGED <<bootVars, workers>>

IdNext ==
    \/ Next
    \/ \E id \in 1..MaxId, new_id \in 0..(nextId - 1), accepted \in BOOLEAN :
          UpdateId(id, new_id, accepted)
    \/ \E d \in Payloads, id \in 0..MaxId : UpsertWithId(d, id)

IdSpec == Init /\ [][IdNext]_vars

----------------------------------------------------------------------------
(* get_all on the tables a sequence of add calls can leave *)

\* the symbols of the rows listed, in the order the server compares them
CharOrder == <<"a", "b">>

CharRank(c) == CHOOSE i \in DOMAIN CharOrder : CharOrder[i] = c

RECURSIVE SymbolLess(_, _)
\* s sorts before t as strings
SymbolLess(s, t) ==
    IF t = <<>> THEN FALSE
    ELSE IF s = <<>> THEN TRUE
    ELSE IF CharRank(Head(s)) # CharRank(Head(t)) THEN CharRank(Head(s)) < CharRank(Head(t))
    ELSE SymbolLess(Tail(s), Tail(t))

\* the periods of the rows listed: a year with a NULL quarter under both
\* report types, and a year with the quarters 1 and 2
OrderPeriods ==
    { [report_type |-> "annual",    report_year |-> 2023, report_quarter |-> None],
      [report_type |-> "quarterly", report_year |-> 2023, report_quarter |-> None],
      [report_type |-> "quarterly", report_year |-> 2022, report_quarter |-> Some(1)],
      [report_type |-> "quarterly", report_year |-> 2022, report_quarter |-> Some(2)] }

OrderPayloads ==
    { [symbol |-> <<CharOrder[i]>>, report_type |-> p.report_type,
       report_year |-> p.report_year, report_quarter |-> p.report_quarter,
       content |-> "c1"] : i \in DOMAIN CharOrder, p \in OrderPeriods }

\* the table after add(ds[1]), ..., add(ds[n])
TableOf(ds) == { NewReport(ds[i], i) : i \in DOMAIN ds }

\* the tables of up to MaxRows rows with pairwise different business keys
OrderTables ==
    { TableOf(ds) : ds \in { qs \in SeqsUpTo(OrderPayloads, MaxRows) :
                               \A i, j \in DOMAIN qs : qs[i] = qs[j] => i = j } }

\* ORDER BY report_quarter: the server sorts NULL before every value
QuarterRank(q) == IF q = None THEN -1 ELSE q[1]

PrecedesYearAscending(x, y) ==
    \/ SymbolLess(x.symbol, y.symbol)
    \/ /\ x.symbol = y.symbol
       /\ \/ x.report_year < y.report_year
          \/ /\ x.report_year = y.report_year
             /\ QuarterRank(x.report_quarter) < QuarterRank(y.report_quarter)

\* order_by(symbol, report_year.desc(), report_quarter): row x must come
\* before row y
Precedes(x, y) ==
    \/ SymbolLess(x.symbol, y.symbol)
    \/ /\ x.symbol = y.symbol
       /\ \/ x.report_year > y.report_year
          \/ /\ x.report_year = y.report_year
             /\ QuarterRank(x.report_quarter) < QuarterRank(y.report_quarter)

\* the row lists the ordered select may return: rows that the ORDER BY does
\* not separate come in any order
OrderedSelect(store) ==
    LET n == Cardinality(store)
    IN { rows \in [1..n -> store] :
           /\ \A i, j \in 1..n : rows[i] = rows[j] => i = j
           /\ \A i, j \in 1..n : i < j => ~Precedes(rows[j], rows[i]) }

\* `if offset:` and `if limit:`: None and 0 leave the statement as it is
Truthy(arg) == arg # None /\ arg[1] # 0

\* the statement's OFFSET and LIMIT applied to the ordered rows
Paginate(rows, limit, offset) ==
    LET first == IF Truthy(offset) THEN offset[1] + 1 ELSE 1
        last  == IF Truthy(limit)
                 THEN IF first + limit[1] - 1 < Len(rows)
                      THEN first + limit[1] - 1 ELSE Len(rows)
                 ELSE Len(rows)
    IN [i \in 1..(IF last >= first THEN last - first + 1 ELSE 0) |-> rows[first + i - 1]]

\* limit and offset of the get_all calls
PageArgs == {None, Some(0), Some(1)}

QueryInit ==
    /\ reports \in OrderTables
    /\ nextId = Cardinality(reports) + 1
    /\ ret = [op |-> "init"]
    /\ pc = "idle"
    /\ master_engine = "none"
    /\ target_engine = "none"
    /\ dbPresent = TRUE
    /\ tables = {}
    /\ trace = <<>>
    /\ outcome = "running"
    /\ workers = NoCalls

GetAll(limit, offset) ==
    /\ \E rows \in OrderedSelect(reports) :
          ret' = [op |-> "get_all", limit |-> limit, offset |-> offset,
                  rows |-> Paginate(rows, limit, offset)]
    /\ UNCHANGED <<reports, nextId, bootVars, workers>>

QueryNext == \E limit \in PageArgs, offset \in PageArgs : GetAll(limit, offset)

QuerySpec == QueryInit /\ [][QueryNext]_vars

----------------------------------------------------------------------------
(* upsert calls that run concurrently, one session each *)

\* report_data of the concurrent calls: one business key spelled two ways
\* and with two contents, and a second business key
ConcPayloads ==
    BatchItems \cup
      { [symbol |-> <<"a">>, report_type |-> "annual", report_year |-> 2023,
         report_quarter |-> None, content |-> "c2"],
        [symbol |-> <<"a">>, report_type |-> "quarterly", report_year |-> 2023,
         report_quarter |-> Some(1), content |-> "c1"] }

\* existing = self.find_duplicate(symbol=report_data["symbol"], ...)
Lookup(store, report_data) ==
    FindDuplicate(store, report_data.symbol, report_data.report_type,
                  report_data.report_year, report_data.report_quarter)

UpsertFindLocked(w, report_data) ==
    /\ workers[w].pc = "idle"
    /\ \A v \in Workers : workers[v].pc # "found"
    /\ workers' = [workers EXCEPT ![w] =
          [pc |-> "found", data |-> report_data, existing |-> Lookup(reports, report_data)]]
    /\ UNCHANGED <<reports, nextId, ret, bootVars>>

\* the first statement of upsert: the lookup reads the committed rows; nothing
\* is locked or reserved
UpsertFind(w, report_data) ==
    /\ workers[w].pc = "idle"
    /\ workers' = [workers EXCEPT ![w] =
          [pc |-> "found", data |-> report_data, existing |-> Lookup(reports, report_data)]]
    /\ UNCHANGED <<reports, nextId, ret, bootVars>>

\* the rest of upsert, decided by what the lookup returned: scalar_one_or_none
\* raised, or the row found is overwritten, or a new row is inserted
UpsertWrite(w) ==
    LET call == workers[w]
    IN /\ call.pc = "found"
       /\ CASE call.existing.kind = "MultipleResultsFound" ->
                 /\ workers' = [workers EXCEPT ![w] =
                       [pc |-> "done", data |-> call.data, attempt |-> "none",
                        status |-> "MultipleResultsFound"]]
                 /\ UNCHANGED <<reports, nextId>>
            [] call.existing.kind = "one" ->
                 /\ reports' = {r \in reports : r.id # call.existing.row.id}
                                  \cup {OverwriteRow(call.existing.row, call.data)}
                 /\ workers' = [workers EXCEPT ![w] =
                       [pc |-> "done", data |-> call.data, attempt |-> "update",
                        status |-> "ok"]]
                 /\ UNCHANGED nextId
            [] OTHER ->
                 /\ reports' = reports \cup {NewReport(call.data, nextId)}
                 /\ nextId' = nextId + 1
                 /\ workers' = [workers EXCEPT ![w] =
                       [pc |-> "done", data |-> call.data, attempt |-> "insert",
                        status |-> "ok"]]
       /\ UNCHANGED <<ret, bootVars>>

ConcNext ==
    \/ \E w \in Workers, d \in ConcPayloads : UpsertFind(w, d)
    \/ \E w \in Workers : UpsertWrite(w)

ConcSpec == Init /\ [][ConcNext]_vars

----------------------------------------------------------------------------
(* Concurrent upsert calls on a table with a uniqueness constraint *)

\* the table's uniqueness constraint over (symbol, report_type, report_year,
\* report_quarter) refuses `row`: another stored row carries the same values
\* (the server compares NULL quarters as equal)
UniqueKeyRejects(store, row) ==
    \E r \in store : r.id # row.id /\ BusinessKey(r) = BusinessKey(row)

\* the rest of upsert on the constrained table: the INSERT or UPDATE the
\* commit sends is refused with IntegrityError when it would store a second
\* row with one business key; upsert has no except clause, so the error ends
\* the call and nothing is written
UpsertWriteUnique(w) ==
    LET call == workers[w]
        row == IF call.existing.kind = "one"
               THEN OverwriteRow(call.existing.row, call.data)
               ELSE NewReport(call.data, nextId)
    IN /\ call.pc = "found"
       /\ CASE call.existing.kind = "MultipleResultsFound" ->
                 /\ workers' = [workers EXCEPT ![w] =
                       [pc |-> "done", data |-> call.data, attempt |-> "none",
                        status |-> "MultipleResultsFound"]]
                 /\ UNCHANGED <<reports, nextId>>
            [] UniqueKeyRejects(reports, row) ->
                 /\ workers' = [workers EXCEPT ![w] =
                       [pc |-> "done", data |-> call.data,
                        attempt |-> IF call.existing.kind = "one" THEN "update" ELSE "insert",
                        status |-> "IntegrityError"]]
                 /\ UNCHANGED <<reports, nextId>>
            [] call.existing.kind = "one" ->
                 /\ reports' = {r \in reports : r.id # row.id} \cup {row}
                 /\ workers' = [workers EXCEPT ![w] =
                       [pc |-> "done", data |-> call.data, attempt |-> "update",
                        status |-> "ok"]]
                 /\ UNCHANGED nextId
            [] OTHER ->
                 /\ reports' = reports \cup {row}
                 /\ nextId' = nextId + 1
                 /\ workers' = [workers EXCEPT ![w] =
                       [pc |-> "done", data |-> call.data, attempt |-> "insert",
                        status |-> "ok"]]
       /\ UNCHANGED <<ret, bootVars>>

ConcUniqueNext ==
    \/ \E w \in Workers, d \in ConcPayloads : UpsertFind(w, d)
    \/ \E w \in Workers : UpsertWriteUnique(w)

ConcUniqueSpec == Init /\ [][ConcUniqueNext]_vars

----------------------------------------------------------------------------
(* add and add_bulk calls, some of which fail *)

AddBulkFailsKeepsPrefix(reports_data, k) ==
    /\ k \in DOMAIN reports_data
    /\ nextId + k - 1 <= MaxId + 1
    /\ reports' = reports \cup
          { NewReport(reports_data[i], nextId + i - 1) : i \in 1..(k - 1) }
    /\ nextId' = nextId + k - 1
    /\ ret' = [op |-> "add_bulk_failed", n |-> Len(reports_data), item |-> k]
    /\ UNCHANGED <<bootVars, workers>>

\* add_bulk when item k makes the call raise: FinancialReport(**data) refuses
\* the item, or the store refuses its INSERT inside bulk_save_objects.  The
\* exception leaves add_bulk before session.commit() is reached, so no row of
\* the batch is committed
AddBulkFails(reports_data, k) ==
    /\ k \in DOMAIN reports_data
    /\ ret' = [op |-> "add_bulk_failed", n |-> Len(reports_data), item |-> k]
    /\ UNCHANGED <<reports, nextId, bootVars, workers>>

BulkNext ==
    \/ \E d \in Payloads : Add(d)
    \/ \E ds \in AddBatches : AddBulk(ds)
    \/ \E ds \in AddBatches, k \in 1..MaxBatch : AddBulkFails(ds, k)

BulkSpec == Init /\ [][BulkNext]_vars

----------------------------------------------------------------------------
(* DBManager.initialize() *)

RequiredTables ==
    {"balance_sheet_items", "income_statement_items", "cash_flow_statement_items",
     "financial_reports"}

\* what the target database may hold when initialize() starts
TableStates == { {}, {"financial_reports"}, RequiredTables }

\* how command.upgrade(alembic_cfg, "head") may end: it returns, or it raises one
\* of the three kinds sync_tables catches, or another kind (alembic's
\* CommandError is a plain Exception)
UpgradeOutcomes == {"ok", "SQLAlchemyError", "RuntimeError", "FileNotFoundError", "CommandError"}

\* _get_engine: the engine is created on first use and the same object is
\* returned afterwards; a disposed engine opens a new pool when used
GetEngine(engine) == "live"

\* db_exists() when its query raises SQLAlchemyError (err) or returns
DbExists(err) == ~err /\ dbPresent

\* the except clause of sync_tables
SyncCatches(exc) == exc \in {"SQLAlchemyError", "RuntimeError", "FileNotFoundError"}

InitializeCatchesOnlyDbErrors(exc) == exc = "SQLAlchemyError"

\* the except clause of initialize()
InitializeCatches(exc) == exc \in {"SQLAlchemyError", "RuntimeError"}

\* how initialize() ends when `exc` is raised inside its try block
OutcomeOfRaise(exc) == IF InitializeCatches(exc) THEN "false" ELSE "raised"

FinalResultAlwaysTrue(tables_ok) == "true"

\* the last if/else of initialize()
FinalResult(tables_ok) == IF tables_ok THEN "true" ELSE "false"

Call(name, result, raised) == [call |-> name, result |-> result, raised |-> raised]

BootInit ==
    /\ reports = {}
    /\ nextId = 1
    /\ ret = [op |-> "init"]
    /\ pc = "idle"
    /\ master_engine = "none"
    /\ target_engine = "none"
    /\ dbPresent \in BOOLEAN
    /\ tables \in TableStates
    /\ trace = <<>>
    /\ outcome = "running"
    /\ workers = NoCalls

InitStart ==
    /\ pc = "idle"
    /\ pc' = "verify_conn"
    /\ UNCHANGED <<storeVars, workers, master_engine, target_engine, dbPresent, tables, trace, outcome>>

InitVerifyConnContinue(connected) ==
    /\ pc = "verify_conn"
    /\ master_engine' = GetEngine(master_engine)
    /\ trace' = Append(trace, Call("verify_conn", connected, "none"))
    /\ pc' = "db_exists"
    /\ UNCHANGED <<storeVars, workers, target_engine, dbPresent, tables, outcome>>

\* if not self.verify_conn(): raise RuntimeError(...)
InitVerifyConn(connected) ==
    /\ pc = "verify_conn"
    /\ master_engine' = GetEngine(master_engine)
    /\ trace' = Append(trace, Call("verify_conn", connected, "none"))
    /\ IF connected
       THEN pc' = "db_exists" /\ UNCHANGED outcome
       ELSE pc' = "cleanup" /\ outcome' = OutcomeOfRaise("RuntimeError")
    /\ UNCHANGED <<storeVars, workers, target_engine, dbPresent, tables>>

InitDbExistsContinue(err) ==
    /\ pc = "db_exists"
    /\ master_engine' = GetEngine(master_engine)
    /\ trace' = Append(trace, Call("db_exists", DbExists(err), "none"))
    /\ pc' = "tables_exist"
    /\ UNCHANGED <<storeVars, workers, target_engine, dbPresent, tables, outcome>>

\* if not self.db_exists(): return False
InitDbExists(err) ==
    /\ pc = "db_exists"
    /\ master_engine' = GetEngine(master_engine)
    /\ trace' = Append(trace, Call("db_exists", DbExists(err), "none"))
    /\ IF DbExists(err)
       THEN pc' = "tables_exist" /\ UNCHANGED outcome
       ELSE pc' = "cleanup" /\ outcome' = "false"
    /\ UNCHANGED <<storeVars, workers, target_engine, dbPresent, tables>>

\* tables_exist(): False when db_exists() is False, else the query over the
\* target engine; a query error is caught and gives False
TablesExist(dbErr, queryErr) ==
    /\ DbExists(dbErr)
    /\ ~queryErr
    /\ RequiredTables \subseteq tables

\* if not self.tables_exist(): ... else: ...   (the first call)
InitTablesExist(dbErr, queryErr) ==
    /\ pc = "tables_exist"
    /\ master_engine' = GetEngine(master_engine)
    /\ target_engine' = IF DbExists(dbErr) THEN GetEngine(target_engine) ELSE target_engine
    /\ trace' = Append(trace, Call("tables_exist", TablesExist(dbErr, queryErr), "none"))
    /\ pc' = "sync_tables"
    /\ UNCHANGED <<storeVars, workers, dbPresent, tables, outcome>>

\* sync_tables(): [result, raised, tables] for one run of the migration engine;
\* an upgrade that returns has created the missing tables (created) or had no
\* revision that creates them
SyncTables(dbErr, upgrade, created) ==
    IF ~DbExists(dbErr) THEN [result |-> FALSE, raised |-> "none", tables |-> tables]
    ELSE IF upgrade = "ok"
         THEN [result |-> TRUE, raised |-> "none",
               tables |-> IF created THEN tables \cup RequiredTables ELSE tables]
    ELSE IF SyncCatches(upgrade) THEN [result |-> FALSE, raised |-> "none", tables |-> tables]
    ELSE [result |-> FALSE, raised |-> upgrade, tables |-> tables]

InitSyncTablesStrict(dbErr, upgrade, created) ==
    LET sync == SyncTables(dbErr, upgrade, created)
    IN /\ pc = "sync_tables"
       /\ master_engine' = GetEngine(master_engine)
       /\ tables' = sync.tables
       /\ trace' = Append(trace, Call("sync_tables", sync.result, sync.raised))
       /\ IF sync.raised # "none"
          THEN pc' = "cleanup" /\ outcome' = OutcomeOfRaise(sync.raised)
          ELSE IF ~sync.result
               THEN pc' = "cleanup" /\ outcome' = "false"
               ELSE pc' = "final_tables_exist" /\ UNCHANGED outcome
       /\ UNCHANGED <<storeVars, workers, target_engine, dbPresent>>

\* the two sync_tables() calls of initialize(): after tables_exist() was False
\* a False result returns False; after it was True a False result is logged
InitSyncTables(dbErr, upgrade, created) ==
    LET sync == SyncTables(dbErr, upgrade, created)
        tables_existed == trace[Len(trace)].result
    IN /\ pc = "sync_tables"
       /\ master_engine' = GetEngine(master_engine)
       /\ tables' = sync.tables
       /\ trace' = Append(trace, Call("sync_tables", sync.result, sync.raised))
       /\ IF sync.raised # "none"
          THEN pc' = "cleanup" /\ outcome' = OutcomeOfRaise(sync.raised)
          ELSE IF ~tables_existed /\ ~sync.result
               THEN pc' = "cleanup" /\ outcome' = "false"
               ELSE pc' = "final_tables_exist" /\ UNCHANGED outcome
       /\ UNCHANGED <<storeVars, workers, target_engine, dbPresent>>

\* if self.tables_exist(): return True else: return False
InitFinalTablesExist(dbErr, queryErr) ==
    /\ pc = "final_tables_exist"
    /\ master_engine' = GetEngine(master_engine)
    /\ target_engine' = IF DbExists(dbErr) THEN GetEngine(target_engine) ELSE target_engine
    /\ trace' = Append(trace, Call("tables_exist", TablesExist(dbErr, queryErr), "none"))
    /\ outcome' = FinalResult(TablesExist(dbErr, queryErr))
    /\ pc' = "cleanup"
    /\ UNCHANGED <<storeVars, workers, dbPresent, tables>>

InitCleanupTargetOnly ==
    /\ pc = "cleanup"
    /\ target_engine' = IF target_engine # "none" THEN "disposed" ELSE target_engine
    /\ trace' = Append(trace, Call("cleanup", TRUE, "none"))
    /\ pc' = "done"
    /\ UNCHANGED <<storeVars, workers, master_engine, dbPresent, tables, outcome>>

\* finally: self.cleanup()
InitCleanup ==
    /\ pc = "cleanup"
    /\ target_engine' = IF target_engine # "none" THEN "disposed" ELSE target_engine
    /\ master_engine' = IF master_engine # "none" THEN "disposed" ELSE master_engine
    /\ trace' = Append(trace, Call("cleanup", TRUE, "none"))
    /\ pc' = "done"
    /\ UNCHANGED <<storeVars, workers, dbPresent, tables, outcome>>

BootNext ==
    \/ InitStart
    \/ \E connected \in BOOLEAN : InitVerifyConn(connected)
    \/ \E err \in BOOLEAN : InitDbExists(err)
    \/ \E dbErr \in BOOLEAN, queryErr \in BOOLEAN : InitTablesExist(dbErr, queryErr)
    \/ \E dbErr \in BOOLEAN, upgrade \in UpgradeOutcomes, created \in BOOLEAN :
          InitSyncTables(dbErr, upgrade, created)
    \/ \E dbErr \in BOOLEAN, queryErr \in BOOLEAN : InitFinalTablesExist(dbErr, queryErr)
    \/ InitCleanup

BootSpec == BootInit /\ [][BootNext]_vars

----------------------------------------------------------------------------
(* The public methods of DBManager, called directly in any order *)

\* a database that does not exist holds no tables
ManagerInit ==
    /\ BootInit
    /\ ~dbPresent => tables = {}

\* verify_conn(): SELECT 1 over the master engine; SQLAlchemyError gives False
CallVerifyConn(connected) ==
    /\ master_engine' = GetEngine(master_engine)
    /\ ret' = [op |-> "verify_conn", result |-> connected, raised |-> "none"]
    /\ UNCHANGED <<reports, nextId, workers, pc, target_engine, dbPresent, tables, trace, outcome>>

CallDbExists(err) ==
    /\ master_engine' = GetEngine(master_engine)
    /\ ret' = [op |-> "db_exists", result |-> DbExists(err), raised |-> "none"]
    /\ UNCHANGED <<reports, nextId, workers, pc, target_engine, dbPresent, tables, trace, outcome>>

CreateDbUngated(err, createOk) ==
    IF ~dbPresent /\ createOk
    THEN [result |-> TRUE, creates |-> 1, dbPresent |-> TRUE]
    ELSE [result |-> FALSE, creates |-> 1, dbPresent |-> dbPresent]

\* create_db(): [result, creates, dbPresent].  True without a statement when
\* db_exists() is True; else one CREATE DATABASE on the master connection,
\* which the server rejects (SQLAlchemyError, False) when the database is
\* already there or when createOk is false
CreateDb(err, createOk) ==
    IF DbExists(err)
    THEN [result |-> TRUE, creates |-> 0, dbPresent |-> dbPresent]
    ELSE IF ~dbPresent /\ createOk
         THEN [result |-> TRUE, creates |-> 1, dbPresent |-> TRUE]
         ELSE [result |-> FALSE, creates |-> 1, dbPresent |-> dbPresent]

CallCreateDb(err, createOk) ==
    LET c == CreateDb(err, createOk)
    IN /\ master_engine' = GetEngine(master_engine)
       /\ dbPresent' = c.dbPresent
       /\ tables' = IF c.dbPresent # dbPresent THEN {} ELSE tables
       /\ ret' = [op |-> "create_db", result |-> c.result, raised |-> "none",
                  db_exists |-> DbExists(err), creates |-> c.creates,
                  again |-> (ret.op = "create_db" /\ ret.result)]
       /\ UNCHANGED <<reports, nextId, workers, pc, target_engine, trace, outcome>>

TablesExistUsesTargetAlways(dbErr) == TRUE

\* tables_exist() reaches self._get_engine(is_master=False) only after
\* db_exists() was True
TablesExistUsesTarget(dbErr) == DbExists(dbErr)

CallTablesExist(dbErr, queryErr) ==
    /\ master_engine' = GetEngine(master_engine)
    /\ target_engine' = IF TablesExistUsesTarget(dbErr)
                        THEN GetEngine(target_engine) ELSE target_engine
    /\ ret' = [op |-> "tables_exist", result |-> TablesExist(dbErr, queryErr),
               raised |-> "none", db_exists |-> DbExists(dbErr),
               target_used |-> TablesExistUsesTarget(dbErr)]
    /\ UNCHANGED <<reports, nextId, workers, pc, dbPresent, tables, trace, outcome>>

CallSyncTables(dbErr, upgrade, created) ==
    LET sync == SyncTables(dbErr, upgrade, created)
    IN /\ master_engine' = GetEngine(master_engine)
       /\ tables' = sync.tables
       /\ ret' = [op |-> "sync_tables", result |-> sync.result, raised |-> sync.raised]
       /\ UNCHANGED <<reports, nextId, workers, pc, target_engine, dbPresent, trace, outcome>>

CleanupUnguarded(target, master) ==
    [target |-> IF target # "none" THEN "disposed" ELSE target,
     master |-> IF master # "none" THEN "disposed" ELSE master,
     raised |-> IF "none" \in {target, master} THEN "AttributeError" ELSE "none"]

\* cleanup(): dispose() on each engine attribute that is not None; the
\* attributes keep their engine objects
Cleanup(target, master) ==
    [target |-> IF target # "none" THEN "disposed" ELSE target,
     master |-> IF master # "none" THEN "disposed" ELSE master,
     raised |-> "none"]

CallCleanup ==
    LET c == Cleanup(target_engine, master_engine)
    IN /\ target_engine' = c.target
       /\ master_engine' = c.master
       /\ ret' = [op |-> "cleanup", result |-> TRUE, raised |-> c.raised,
                  again |-> (ret.op = "cleanup")]
       /\ UNCHANGED <<reports, nextId, workers, pc, dbPresent, tables, trace, outcome>>

ManagerNext ==
    \/ \E connected \in BOOLEAN : CallVerifyConn(connected)
    \/ \E err \in BOOLEAN : CallDbExists(err)
    \/ \E err \in BOOLEAN, createOk \in BOOLEAN : CallCreateDb(err, createOk)
    \/ \E dbErr \in BOOLEAN, queryErr \in BOOLEAN : CallTablesExist(dbErr, queryErr)
    \/ \E dbErr \in BOOLEAN, upgrade \in UpgradeOutcomes, created \in BOOLEAN :
          CallSyncTables(dbErr, upgrade, created)
    \/ CallCleanup

ManagerSpec == ManagerInit /\ [][ManagerNext]_vars

----------------------------------------------------------------------------
(* Claims about the repository, checked under Spec *)

\* the stored rows that carry business key k
RowsWithKey(store, k) == {r \in store : BusinessKey(r) = k}

\* C1: Idempotent upsert.  When upsert(p1) ran on a table with no row for the
\* business key k of p1 (in any spelling of the symbol) and the next call is
\* upsert(p2) with the same k, the
\* second call returns created = False, exactly one row carries k, and its
\* content is that of p2.
C1_IdempotentUpsert ==
    [][ ( /\ ret.op = "upsert" /\ ret.fresh
          /\ ret'.op = "upsert"
          /\ {"symbol", "report_type", "report_year"} \subseteq DOMAIN ret'.data
          /\ BusinessKey(ret'.data) = BusinessKey(ret.data) )
        => ( /\ ret'.status = "ok"
             /\ ret'.created = FALSE
             /\ Cardinality(RowsWithKey(reports', BusinessKey(ret.data))) = 1
             /\ \A r \in RowsWithKey(reports', BusinessKey(ret.data)) :
                    r.content = ret'.data.content ) ]_vars

\* C2: Business-key uniqueness.  No two stored rows have the same
\* (symbol, report_type, report_year, report_quarter); two NULL quarters count
\* as the same quarter.
C2_BusinessKeyUnique ==
    \A r1 \in reports, r2 \in reports : BusinessKey(r1) = BusinessKey(r2) => r1 = r2

\* C3: Symbol normalization on write.  The symbol of every stored row is
\* lowercase.
C3_StoredSymbolsLowercase == \A r \in reports : r.symbol = Lower(r.symbol)

\* C4: Case-insensitive lookup.  For two spellings of a symbol that differ only
\* in letter case, get_by_symbol, count_by_symbol, delete_by_symbol and
\* find_duplicate give the same result on every table.
C4_CaseInsensitiveLookup ==
    \A s1 \in Symbols, s2 \in Symbols :
        Lower(s1) = Lower(s2) =>
            /\ GetBySymbol(reports, s1) = GetBySymbol(reports, s2)
            /\ CountBySymbol(reports, s1) = CountBySymbol(reports, s2)
            /\ DeleteBySymbolResult(reports, s1) = DeleteBySymbolResult(reports, s2)
            /\ \A t \in ReportTypes, y \in ReportYears, q \in QuarterArgs :
                   FindDuplicate(reports, s1, t, y, q) = FindDuplicate(reports, s2, t, y, q)

\* C4 witness: a lookup by the uppercase spelling returns a row while another
\* stored row is left out of the result.
C4_Witness ==
    /\ GetBySymbol(reports, <<"A">>) # {}
    /\ GetBySymbol(reports, <<"A">>) # reports

\* C5: Null-quarter distinctness.  A row that find_duplicate returns has the
\* report_type and report_year asked for; its quarter is NULL when the call
\* gave no quarter and equals q when the call gave quarter q.
C5_NullQuarterDistinct ==
    \A s \in Symbols, t \in ReportTypes, y \in ReportYears, q \in QuarterArgs :
        LET found == FindDuplicate(reports, s, t, y, q)
        IN found.kind = "one" =>
              /\ found.row.report_type = t
              /\ found.row.report_year = y
              /\ (q = None => found.row.report_quarter = None)
              /\ (q # None => found.row.report_quarter = q)

\* C5 witness: a lookup without quarter returns a row while a row of the same
\* symbol, type and year with a quarter is stored.
C5_Witness ==
    /\ FindDuplicate(reports, <<"a">>, "quarterly", 2023, None).kind = "one"
    /\ FindDuplicate(reports, <<"a">>, "quarterly", 2023, Some(1)).kind = "one"

\* C6: Bulk statistics.  upsert_bulk on n items returns total = n, created =
\* the number of items whose business key no stored row carried when the item
\* was processed (symbols compared as spelled, or compared case-insensitively),
\* updated = the number of the other items.
C6_BulkStatistics ==
    (ret.op = "upsert_bulk" /\ ret.status = "ok") =>
        /\ ret.total = ret.n
        /\ ret.created \in {ret.fresh, ret.freshExact}
        /\ ret.updated = ret.n - ret.created

\* C7: Non-atomic bulk upsert.  When upsert_bulk fails at item N, what items
\* 1..N-1 did stays committed: the rows they created are stored and a row
\* holds every field of item N-1.
C7_PrefixStaysCommitted ==
    [][ (ret'.op = "upsert_bulk" /\ ret'.status # "ok")
        => ( /\ ret'.done = ret'.created + ret'.updated
             /\ Cardinality(reports') = Cardinality(reports) + ret'.created
             /\ ret'.done > 0 =>
                  \E r \in reports' :
                      \A k \in DOMAIN ret'.last[1] : r[k] = ret'.last[1][k] ) ]_vars

\* C7 witness: upsert_bulk failed at its second item after the first item
\* created a row.
C7_Witness ==
    /\ ret.op = "upsert_bulk"
    /\ ret.status = "KeyError"
    /\ ret.done = 1
    /\ ret.created = 1

----------------------------------------------------------------------------
(* Claims about DBManager.initialize(), checked under BootSpec *)

\* initialize() has returned or raised, its finally clause included
Finished == pc = "done"

\* the i-th call of initialize() was `name`
Called(i, name) == i <= Len(trace) /\ trace[i].call = name

\* verify_conn() returned False
ConnectivityFailed == Called(1, "verify_conn") /\ ~trace[1].result

\* tables_exist() was True and the sync_tables() call after it returned False
SyncFailedWithTables ==
    /\ Called(3, "tables_exist") /\ trace[3].result
    /\ Called(4, "sync_tables") /\ ~trace[4].result /\ trace[4].raised = "none"

\* steps 1-3 did not stop initialize(): connectivity ok, database found, and
\* sync_tables() returned True after tables were missing, or returned True or
\* False after tables existed
PastStepThree ==
    /\ Called(1, "verify_conn") /\ trace[1].result
    /\ Called(2, "db_exists") /\ trace[2].result
    /\ Called(3, "tables_exist")
    /\ Called(4, "sync_tables") /\ trace[4].raised = "none"
    /\ (trace[3].result \/ trace[4].result)

C9_SyncFailureReturnsFalse ==
    (Finished /\ SyncFailedWithTables) => outcome = "false"

\* C9 amended: when tables_exist() is True and the sync_tables() call after it
\* returns False, initialize() does not stop and raises nothing: it makes the
\* final tables_exist() call and returns that call's result.
C9_SyncFailureTolerated ==
    (Finished /\ SyncFailedWithTables) =>
        /\ outcome # "raised"
        /\ Called(5, "tables_exist")
        /\ outcome = (IF trace[5].result THEN "true" ELSE "false")

\* C9 witness: sync_tables() returned False after tables existed, and
\* initialize() returned True.
C9_Witness == Finished /\ SyncFailedWithTables /\ outcome = "true"

\* C10: whenever initialize() gets past steps 1-3, it returns True if and only
\* if the final tables_exist() call returns True.
C10_FinalResult ==
    (Finished /\ PastStepThree) =>
        /\ Called(5, "tables_exist")
        /\ (outcome = "true") <=> trace[5].result
        /\ outcome \in {"true", "false"}

\* C10 witness: initialize() returned False after a sync_tables() that returned
\* True, because the final tables_exist() was False.
C10_Witness ==
    /\ Finished /\ PastStepThree
    /\ trace[4].result
    /\ outcome = "false"

\* C11: Guaranteed release.  However initialize() ends (True, False at any
\* step, the connectivity failure, an exception that escapes), its last call is
\* cleanup() and no engine created during the call is left undisposed.
C11_GuaranteedRelease ==
    Finished =>
        /\ Called(Len(trace), "cleanup")
        /\ master_engine = "disposed"
        /\ target_engine \in {"none", "disposed"}
        /\ (\E i \in DOMAIN trace : trace[i].call = "tables_exist" /\ trace[i].result)
              => target_engine = "disposed"

\* C11 witness: an exception escaped initialize() after the target engine had
\* been created, and both engines are disposed.
C11_Witness ==
    /\ Finished
    /\ outcome = "raised"
    /\ target_engine = "disposed"
    /\ master_engine = "disposed"

\* verify_conn() returned True and db_exists() returned False
DatabaseMissing ==
    /\ Called(1, "verify_conn") /\ trace[1].result
    /\ Called(2, "db_exists") /\ ~trace[2].result

\* C12: Missing database stops bootstrap.  When connectivity succeeds and
\* db_exists() is False, initialize() returns False and makes no call of
\* create_db(), tables_exist() or sync_tables(); the target engine is never
\* created.
C12_MissingDatabaseStops ==
    (DatabaseMissing /\ pc \in {"cleanup", "done"}) =>
        /\ outcome = "false"
        /\ \A i \in DOMAIN trace :
              trace[i].call \notin {"create_db", "tables_exist", "sync_tables"}
        /\ target_engine = "none"

\* C12 witness: initialize() has ended after db_exists() returned False.
C12_Witness == Finished /\ DatabaseMissing

\* C18: Not-found results.  For an id that no stored row has, get_by_id
\* returns None, update returns None and delete returns False; none of them
\* raises and the table is left as it was.
C18_NotFound ==
    [][/\ \A id \in 0..(MaxId + 1) :
             (~ \E r \in reports : r.id = id) => GetById(reports, id).kind = "none"
       /\ (ret'.op = "update" /\ ret'.missing) =>
             (~ret'.found /\ reports' = reports /\ nextId' = nextId)
       /\ (ret'.op = "delete" /\ ret'.missing) =>
             (~ret'.deleted /\ reports' = reports /\ nextId' = nextId)]_vars

\* C18 witness: delete of an id that no row has returned False on a table
\* that holds a row.
C18_Witness ==
    /\ ret.op = "delete"
    /\ ret.missing
    /\ ~ret.deleted
    /\ reports # {}

\* C24: No unchecked business-key mutation.  update, which makes no
\* find_duplicate check, leaves the business key of every stored row as it
\* was; the update branch of upsert leaves the row it overwrites with the
\* business key that find_duplicate was asked for.
C24_NoUncheckedKeyMutation ==
    [][/\ ret'.op = "update" =>
             \A r \in reports, r2 \in reports' :
                 r.id = r2.id => NormalKey(r2) = NormalKey(r)
       /\ (ret'.op = "upsert" /\ ret'.status = "ok" /\ ~ret'.created) =>
             \A r \in reports, r2 \in reports' :
                 (r.id = r2.id /\ r2 # r) => NormalKey(r2) = NormalKey(ret'.data)]_vars

\* C26: find_duplicate is total.  In every state that add, add_bulk, update
\* and upsert can reach, find_duplicate returns one row or None for every
\* business key, and no upsert call fails because several rows match.
C26_FindDuplicateTotal ==
    /\ \A s \in Symbols, t \in ReportTypes, y \in ReportYears, q \in QuarterArgs :
          FindDuplicate(reports, s, t, y, q).kind # "MultipleResultsFound"
    /\ ret.op = "upsert" => ret.status # "MultipleResultsFound"

----------------------------------------------------------------------------
(* Claims about add_bulk, checked under BulkSpec *)

\* C28: add_bulk is all-or-nothing.  An add_bulk call that returns has stored
\* one new row for every item of its list; an add_bulk call that fails, at
\* whichever item, has stored none of them and leaves the table as it was.
C28_AddBulkAllOrNothing ==
    [][/\ ret'.op = "add_bulk" =>
             /\ reports \subseteq reports'
             /\ Cardinality(reports' \ reports) = ret'.n
             /\ nextId' = nextId + ret'.n
       /\ ret'.op = "add_bulk_failed" => reports' = reports]_vars

\* C28 witness: add_bulk failed at the second of two items, on a table that
\* already held a row, and the table holds that row only.
C28_Witness ==
    /\ ret.op = "add_bulk_failed"
    /\ ret.n = 2
    /\ ret.item = 2
    /\ Cardinality(reports) = 1

----------------------------------------------------------------------------
(* Claims about the repository called with an "id" entry, checked under IdSpec *)

Ids(store) == {r.id : r \in store}

\* C17: Immutable surrogate id.  No call other than a delete removes an id
\* from the table, and the only ids a call adds are those the autoincrement
\* issued during the call; so update(id, partial) and upsert(data) with an
\* "id" entry leave the id of the existing row as it was.
C17_IdImmutable ==
    [][/\ ret'.op \notin {"delete", "delete_by_symbol"} => Ids(reports) \subseteq Ids(reports')
       /\ Ids(reports') \ Ids(reports) \subseteq nextId..(nextId' - 1)]_vars

----------------------------------------------------------------------------
(* Claims about get_all, checked under QuerySpec *)

\* (symbol, report_year, report_quarter) of the rows of a list
SortKeys(rows) ==
    [i \in DOMAIN rows |-> <<rows[i].symbol, rows[i].report_year, rows[i].report_quarter>>]

\* C19: get_all() ordering.  Without limit and offset the list holds every
\* stored row once; of two rows the one with the smaller symbol comes first,
\* with equal symbols the one with the later year, and with equal symbol and
\* year the one with the smaller quarter.  The table with the rows
\* (a,2022,Q2), (a,2023,NULL), (a,2022,Q1) is listed as (a,2023,NULL),
\* (a,2022,Q1), (a,2022,Q2).
C19_GetAllOrdering ==
    (ret.op = "get_all" /\ ~Truthy(ret.limit) /\ ~Truthy(ret.offset)) =>
        /\ Len(ret.rows) = Cardinality(reports)
        /\ {ret.rows[i] : i \in DOMAIN ret.rows} = reports
        /\ \A i, j \in DOMAIN ret.rows : i < j =>
              LET x == ret.rows[i]
                  y == ret.rows[j]
              IN \/ SymbolLess(x.symbol, y.symbol)
                 \/ x.symbol = y.symbol /\ x.report_year > y.report_year
                 \/ /\ x.symbol = y.symbol
                    /\ x.report_year = y.report_year
                    /\ (x.report_quarter # None /\ y.report_quarter # None)
                          => x.report_quarter[1] <= y.report_quarter[1]
        /\ (/\ Cardinality(reports) = 3
            /\ {<<r.symbol, r.report_year, r.report_quarter>> : r \in reports}
                  = {<<<<"a">>, 2022, Some(2)>>, <<<<"a">>, 2023, None>>,
                     <<<<"a">>, 2022, Some(1)>>})
           => SortKeys(ret.rows)
                = << <<<<"a">>, 2023, None>>, <<<<"a">>, 2022, Some(1)>>,
                     <<<<"a">>, 2022, Some(2)>> >>

\* C19 witness: get_all() without limit and offset has listed the three
\* fixture rows, which were added in the order Q2, NULL, Q1.
C19_Witness ==
    /\ ret.op = "get_all"
    /\ ret.limit = None
    /\ ret.offset = None
    /\ Len(ret.rows) = 3
    /\ \E r \in reports : r.id = 1 /\ r.report_year = 2022 /\ r.report_quarter = Some(2)
    /\ \E r \in reports : r.id = 2 /\ r.report_year = 2023 /\ r.report_quarter = None
    /\ \E r \in reports : r.id = 3 /\ r.report_year = 2022 /\ r.report_quarter = Some(1)
    /\ \A r \in reports : r.symbol = <<"a">>

----------------------------------------------------------------------------
(* Claims about concurrent upsert calls, checked under ConcSpec *)

\* call w has looked up its business key, found no row, and not yet written
ObservedAbsent(w) == workers[w].pc = "found" /\ workers[w].existing.kind = "none"

\* C20: Check-then-act race.  While one upsert call stands between a lookup
\* that found nothing and its insert, nothing keeps another call from looking
\* up the same key and finding nothing too; and when two calls have both
\* found nothing for one key, each of them goes on to insert a row.
C20_CheckThenActRace ==
    \A w1, w2 \in Workers : w1 # w2 =>
        /\ (ObservedAbsent(w1) /\ workers[w2].pc = "idle"
              /\ Lookup(reports, workers[w1].data).kind = "none")
             => ENABLED (UpsertFind(w2, workers[w1].data) /\ ObservedAbsent(w2)')
        /\ (ObservedAbsent(w1) /\ ObservedAbsent(w2)
              /\ NormalKey(workers[w1].data) = NormalKey(workers[w2].data))
             => /\ ENABLED (UpsertWrite(w1) /\ workers'[w1].attempt = "insert")
                /\ ENABLED (UpsertWrite(w2) /\ workers'[w2].attempt = "insert")

\* C20 witness: two calls for one business key, neither of which found a row,
\* have both inserted, and the table holds two rows with that key.
C20_Witness ==
    \E w1, w2 \in Workers :
        /\ w1 # w2
        /\ workers[w1].pc = "done" /\ workers[w1].attempt = "insert"
        /\ workers[w2].pc = "done" /\ workers[w2].attempt = "insert"
        /\ BusinessKey(workers[w1].data) = BusinessKey(workers[w2].data)
        /\ Cardinality(RowsWithKey(reports, BusinessKey(workers[w1].data))) = 2

----------------------------------------------------------------------------
(* Claims about concurrent upsert calls on the constrained table, checked
   under ConcUniqueSpec *)

\* the stored rows whose business key is that of report_data, in any spelling
\* of the symbol
RowsForKey(store, report_data) ==
    {r \in store : NormalKey(r) = NormalKey(report_data)}

\* C21: Uniqueness under concurrency.  On a table whose uniqueness constraint
\* refuses a second row with one business key, once an upsert call has ended
\* the table holds exactly one row for the business key of that call, however
\* the concurrent calls were interleaved.
C21_OneRecordPerKey ==
    \A w \in Workers :
        workers[w].pc = "done" => Cardinality(RowsForKey(reports, workers[w].data)) = 1

\* C25: Conflict treated as retryable.  On the constrained table no upsert
\* call ends in an error: a call whose insert the constraint refused goes on
\* as an update and completes.
C25_ConflictRetried ==
    \A w \in Workers : workers[w].pc = "done" => workers[w].status = "ok"

\* C22 as stated: every run of initialize() that returns True has made, in
\* this order, a verify_conn() call that returned True, a db_exists() call
\* that returned True and a sync_tables() call that returned True.
C22_StateOrder ==
    (Finished /\ outcome = "true") =>
        /\ Called(1, "verify_conn") /\ trace[1].result
        /\ Called(2, "db_exists") /\ trace[2].result
        /\ \E i \in 3..Len(trace) : trace[i].call = "sync_tables" /\ trace[i].result

\* C22 amended: the calls of initialize() come in the order verify_conn,
\* db_exists, tables_exist, sync_tables, tables_exist, and each is made only
\* after the one before it let the run go on: verify_conn and db_exists
\* returned True, and sync_tables raised nothing and returned True or, when
\* the tables existed before it, False.  A run that returns True has made all
\* five calls and its final tables_exist() returned True.
C22_StateOrderWithToleratedSync ==
    /\ \A i \in DOMAIN trace :
          /\ i = 1 => trace[i].call = "verify_conn"
          /\ i = 2 /\ trace[i].call # "cleanup" =>
                trace[i].call = "db_exists" /\ trace[1].result
          /\ i = 3 /\ trace[i].call # "cleanup" =>
                trace[i].call = "tables_exist" /\ trace[2].result
          /\ i = 4 /\ trace[i].call # "cleanup" => trace[i].call = "sync_tables"
          /\ i = 5 /\ trace[i].call # "cleanup" =>
                /\ trace[i].call = "tables_exist"
                /\ trace[4].raised = "none"
                /\ trace[3].result \/ trace[4].result
          /\ i >= 6 => i = 6 /\ trace[i].call = "cleanup"
    /\ outcome = "true" =>
          /\ Len(trace) >= 5
          /\ trace[1].result /\ trace[2].result
          /\ Called(4, "sync_tables")
          /\ Called(5, "tables_exist") /\ trace[5].result

\* C22 witness: initialize() returned True after tables were missing and
\* sync_tables() created them.
C22_Witness ==
    /\ Finished
    /\ outcome = "true"
    /\ Called(3, "tables_exist") /\ ~trace[3].result
    /\ Called(4, "sync_tables") /\ trace[4].result

\* tables_exist() was False and the migration run of the sync_tables() call
\* after it failed
SyncFailedWithoutTables ==
    /\ Called(1, "verify_conn") /\ trace[1].result
    /\ Called(2, "db_exists") /\ trace[2].result
    /\ Called(3, "tables_exist") /\ ~trace[3].result
    /\ Called(4, "sync_tables") /\ ~trace[4].result

\* C23: Fatal synchronization when tables are missing.  When tables_exist()
\* is False and the sync_tables() call after it fails, initialize() returns
\* False and makes no further call but cleanup().
C23_SyncFailureFatal ==
    (Finished /\ SyncFailedWithoutTables) =>
        /\ outcome = "false"
        /\ Len(trace) = 5
        /\ Called(5, "cleanup")

\* C27: Pagination bound.  get_all(limit=L, offset=K) with L >= 0 and K >= 0
\* returns at most L rows, and they are the rows at positions K .. K+L-1
\* (counted from 0) of an unpaginated listing of the table; limit=0 gives the
\* empty list.
C27_PaginationBound ==
    (ret.op = "get_all" /\ ret.limit # None /\ ret.offset # None) =>
        LET L == ret.limit[1]
            K == ret.offset[1]
        IN /\ Len(ret.rows) <= L
           /\ \E full \in OrderedSelect(reports) :
                 /\ Len(ret.rows) = (IF Len(full) - K < L
                                     THEN (IF Len(full) > K THEN Len(full) - K ELSE 0)
                                     ELSE L)
                 /\ \A i \in DOMAIN ret.rows : ret.rows[i] = full[K + i]

----------------------------------------------------------------------------
(* Claims about DBManager's methods called directly, checked under ManagerSpec *)

\* C13: Readiness gate.  Every tables_exist() call whose db_exists() check is
\* False returns False, makes no use of the target engine and leaves the
\* target_engine attribute as it was.
C13_ReadinessGate ==
    [][(ret'.op = "tables_exist" /\ ~ret'.db_exists) =>
          /\ ~ret'.result
          /\ ~ret'.target_used
          /\ target_engine' = target_engine]_vars

\* C13 witness: tables_exist() has returned False behind a False db_exists()
\* on a manager whose target engine was never created.
C13_Witness ==
    /\ ret.op = "tables_exist"
    /\ ~ret.db_exists
    /\ ~ret.result
    /\ target_engine = "none"

\* C14 as stated: create_db() returns True without a CREATE statement when
\* db_exists() is True; on an absent database it issues exactly one CREATE
\* and returns True exactly when the database then exists; and a create_db()
\* call that directly follows another one leaves the catalog unchanged and
\* issues no CREATE statement.
C14_CreateDbIdempotent ==
    [][ret'.op = "create_db" =>
          /\ ret'.db_exists => (ret'.result /\ ret'.creates = 0 /\ dbPresent' = dbPresent)
          /\ ~dbPresent => (ret'.creates = 1 /\ (ret'.result <=> dbPresent'))
          /\ ret.op = "create_db" => (dbPresent' = dbPresent /\ ret'.creates = 0)]_vars

\* C14 amended: the first two parts as stated; a create_db() call that
\* directly follows one that returned True leaves the catalog unchanged, and
\* it issues no CREATE statement exactly when its own db_exists() check is True.
C14_CreateDbIdempotentAfterSuccess ==
    [][ret'.op = "create_db" =>
          /\ ret'.db_exists => (ret'.result /\ ret'.creates = 0 /\ dbPresent' = dbPresent)
          /\ ~dbPresent => (ret'.creates = 1 /\ (ret'.result <=> dbPresent'))
          /\ ret'.result => dbPresent'
          /\ (ret.op = "create_db" /\ ret.result) =>
                /\ dbPresent' = dbPresent
                /\ tables' = tables
                /\ ret'.creates = 0 <=> ret'.db_exists]_vars

\* C14 witness: a second create_db() in a row returned True without a CREATE
\* statement.
C14_Witness ==
    /\ ret.op = "create_db"
    /\ ret.again
    /\ ret.result
    /\ ret.creates = 0

\* C15: cleanup() is total and idempotent.  In every state of the two engine
\* attributes it returns without raising, leaves no engine live and an unset
\* attribute unset; a cleanup() that directly follows another changes nothing.
C15_CleanupTotalIdempotent ==
    [][ret'.op = "cleanup" =>
          /\ ret'.raised = "none"
          /\ target_engine' = (IF target_engine = "none" THEN "none" ELSE "disposed")
          /\ master_engine' = (IF master_engine = "none" THEN "none" ELSE "disposed")
          /\ ret.op = "cleanup" =>
                (target_engine' = target_engine /\ master_engine' = master_engine)]_vars

\* C15 witness: cleanup() ran twice in a row with only the master engine created.
C15_Witness ==
    /\ ret.op = "cleanup"
    /\ ret.again
    /\ master_engine = "disposed"
    /\ target_engine = "none"

\* C16: sync_tables() never throws.  Whatever way the migration engine fails,
\* the call returns a boolean and no exception reaches the caller.
C16_SyncNeverThrows ==
    ret.op = "sync_tables" => ret.raised = "none"

====
